---- MODULE Spec2Model ----
(***************************************************************************)
(* Contract Decoder browser extension: the local text heuristics           *)
(* (splitSentences, localSummarize, localRewrite, localClassify,           *)
(* localTranslate), the remote client (modelApi/googleAI.js), the          *)
(* orchestrator runPipeline with the sidebar it writes to, and the page    *)
(* extraction path handleIfTarget / findAndExtract / processText.          *)
(*                                                                         *)
(* JavaScript strings are TLA+ strings; Len, SubSeq and \o act on them     *)
(* character by character, so every regular expression of the source is    *)
(* evaluated on the characters of the text.                                *)
(***************************************************************************)
EXTENDS Integers, Sequences, FiniteSets, TLC

(***************************************************************************)
(* Characters and the regular-expression primitives the source uses.       *)
(***************************************************************************)
UpperChars == "ABCDEFGHIJKLMNOPQRSTUVWXYZ"
LowerChars == "abcdefghijklmnopqrstuvwxyz"
DigitChars == "0123456789_"

CharsOf(s) == { SubSeq(s, i, i) : i \in 1..Len(s) }

\* \w of a JavaScript regular expression: [A-Za-z0-9_]
WordChars == CharsOf(UpperChars) \cup CharsOf(LowerChars) \cup CharsOf(DigitChars)

\* \s restricted to the white space the input texts contain
SpaceChars == {" ", "\n", "\t"}

LowerOf == [c \in CharsOf(UpperChars) |->
              LET i == CHOOSE k \in 1..Len(UpperChars) : SubSeq(UpperChars, k, k) = c
              IN  SubSeq(LowerChars, i, i)]

LowerChar(c) == IF c \in DOMAIN LowerOf THEN LowerOf[c] ELSE c

\* String.prototype.toLowerCase, by halves
RECURSIVE toLowerCase(_)
toLowerCase(s) ==
    IF Len(s) = 0 THEN ""
    ELSE IF Len(s) = 1 THEN LowerChar(s)
    ELSE toLowerCase(SubSeq(s, 1, Len(s) \div 2))
         \o toLowerCase(SubSeq(s, Len(s) \div 2 + 1, Len(s)))

CharAt(s, i) == IF i >= 1 /\ i <= Len(s) THEN SubSeq(s, i, i) ELSE ""

IsWordAt(s, i) == CharAt(s, i) \in WordChars

\* \b between the characters i-1 and i of s
WordBoundary(s, i) == IsWordAt(s, i - 1) # IsWordAt(s, i)

Min(S) == CHOOSE x \in S : \A y \in S : x <= y
Max(S) == CHOOSE x \in S : \A y \in S : x >= y

\* the positions of s that hold no white space
InkAt(s) == { j \in 1..Len(s) : CharAt(s, j) \notin SpaceChars }

\* String.prototype.trim
Trim(s) == IF InkAt(s) = {} THEN "" ELSE SubSeq(s, Min(InkAt(s)), Max(InkAt(s)))

(***************************************************************************)
(* A regular expression of the source is a record: alts is the list of the *)
(* literal strings the pattern denotes, in the order the backtracking      *)
(* matcher tries them (a greedy optional group before its absence); ci is  *)
(* the i flag; wb says that the pattern is enclosed in \b ... \b.          *)
(***************************************************************************)
Rx(alts, ci, wb) == [alts |-> alts, ci |-> ci, wb |-> wb]

\* the text a pattern is compared with: folded to lower case under the i flag
Folded(s, rx) == IF rx.ci THEN toLowerCase(s) ELSE s

\* alternative k of rx matches s at position i; f is Folded(s, rx)
AltMatchesAt(s, f, i, rx, k) ==
    LET a == rx.alts[k]
    IN  /\ i + Len(a) - 1 <= Len(s)
        /\ SubSeq(f, i, i + Len(a) - 1) = a
        /\ rx.wb => (WordBoundary(s, i) /\ WordBoundary(s, i + Len(a)))

\* length of the first of the alternatives hits of rx, 0 when there is none:
\* the alternatives of a pattern are tried in order
FirstAltLen(rx, hits) == IF hits = {} THEN 0 ELSE Len(rx.alts[Min(hits)])

\* length of the match of rx that starts at position i of s, 0 when none
MatchLen(s, f, i, rx) ==
    FirstAltLen(rx, { k \in 1..Len(rx.alts) : AltMatchesAt(s, f, i, rx, k) })

\* RegExp.prototype.test for a pattern without the g flag
RxTest(rx, s) ==
    LET f == Folded(s, rx) IN \E i \in 1..Len(s) : MatchLen(s, f, i, rx) > 0

\* substring of s from position i up to position j, empty when i > j
Slice(s, i, j) == IF i > j THEN "" ELSE SubSeq(s, i, j)

MinOrZero(S) == IF S = {} THEN 0 ELSE Min(S)

\* leftmost position at or after from where rx matches, 0 when none
NextMatch(s, f, from, rx) ==
    MinOrZero({ i \in from..Len(s) : MatchLen(s, f, i, rx) > 0 })

\* the g-flagged scan: the search resumes right after each match
RECURSIVE ReplaceFrom(_, _, _, _, _)

\* one step of the scan: i is the next match at or after from, 0 when none
ReplaceAt(s, f, from, rx, repl, i) ==
    IF i = 0 THEN Slice(s, from, Len(s))
    ELSE Slice(s, from, i - 1) \o repl
         \o ReplaceFrom(s, f, i + MatchLen(s, f, i, rx), rx, repl)

ReplaceFrom(s, f, from, rx, repl) ==
    ReplaceAt(s, f, from, rx, repl, NextMatch(s, f, from, rx))

\* String.prototype.replace with a g-flagged pattern and a literal replacement
ReplaceAll(s, rx, repl) == ReplaceFrom(s, Folded(s, rx), 1, rx, repl)

(***************************************************************************)
(* content.js: the local heuristics.                                       *)
(***************************************************************************)
Terminals == {".", "!", "?"}

\* first position at or after i of s that holds no character of cs
\* (the end of the greedy run cs+ that starts at i)
RunEnd(s, i, cs) ==
    LET out == { j \in i..Len(s) : CharAt(s, j) \notin cs }
    IN  IF out = {} THEN Len(s) + 1 ELSE Min(out)

\* text.replace(/\n+/g, ' ')
RECURSIVE NewlinesToSpace(_, _)
NewlinesToSpace(s, from) ==
    LET nl == { i \in from..Len(s) : CharAt(s, i) = "\n" }
    IN  IF nl = {} THEN Slice(s, from, Len(s))
        ELSE Slice(s, from, Min(nl) - 1) \o " "
             \o NewlinesToSpace(s, RunEnd(s, Min(nl), {"\n"}))

\* s.split(/(?<=[.!?])\s+/): the pieces of s from position from on
RECURSIVE SplitAfterTerminal(_, _)
SplitAfterTerminal(s, from) ==
    LET cut == { i \in from..Len(s) :
                   CharAt(s, i) \in SpaceChars /\ CharAt(s, i - 1) \in Terminals }
    IN  IF cut = {} THEN << Slice(s, from, Len(s)) >>
        ELSE << Slice(s, from, Min(cut) - 1) >>
             \o SplitAfterTerminal(s, RunEnd(s, Min(cut), SpaceChars))

MapTrim(seq) == [k \in 1..Len(seq) |-> Trim(seq[k])]

NonEmpty(x) == x # ""

splitSentences(text) ==
    SelectSeq(MapTrim(SplitAfterTerminal(NewlinesToSpace(text, 1), 1)), NonEmpty)

\* Array.prototype.join
RECURSIVE Join(_, _)
Join(seq, sep) ==
    IF seq = <<>> THEN ""
    ELSE IF Len(seq) = 1 THEN seq[1]
    ELSE seq[1] \o sep \o Join(Tail(seq), sep)

\* number of leading entries of sorted that x must stay behind: those
\* strictly longer than x (the comparator b.len - a.len is 0 on a tie, and
\* Array.prototype.sort is stable, so x stays ahead of later equal entries)
RECURSIVE LongerPrefix(_, _)
LongerPrefix(x, sorted) ==
    IF sorted # <<>> /\ Len(Head(sorted)) > Len(x)
    THEN 1 + LongerPrefix(x, Tail(sorted)) ELSE 0

RECURSIVE NotShorterPrefix(_, _)
NotShorterPrefix(x, sorted) ==
    IF sorted # <<>> /\ Len(Head(sorted)) >= Len(x)
    THEN 1 + NotShorterPrefix(x, Tail(sorted)) ELSE 0

RECURSIVE sortByLenDescLaterFirst(_)
sortByLenDescLaterFirst(s) ==
    IF s = <<>> THEN <<>>
    ELSE LET rest == sortByLenDescLaterFirst(Tail(s))
             n    == NotShorterPrefix(Head(s), rest)
         IN  SubSeq(rest, 1, n) \o <<Head(s)>> \o SubSeq(rest, n + 1, Len(rest))

\* s.map(...).sort((a,b) => b.len - a.len)
RECURSIVE sortByLenDesc(_)
sortByLenDesc(s) ==
    IF s = <<>> THEN <<>>
    ELSE LET rest == sortByLenDesc(Tail(s))
             n    == LongerPrefix(Head(s), rest)
         IN  SubSeq(rest, 1, n) \o <<Head(s)>> \o SubSeq(rest, n + 1, Len(rest))

DefaultMaxSentences == 3

localSummarize(text, maxSentences) ==
    IF text = "" THEN ""
    ELSE LET s == splitSentences(text)
         IN  IF Len(s) <= maxSentences THEN Join(s, " ")
             ELSE Join(SubSeq(sortByLenDesc(s), 1, maxSentences), "\n\n")

LEGAL_MAP == <<
    [rx |-> Rx(<<"you agree to", "you acknowledge to", "you consent to">>, TRUE, TRUE),
     repl |-> "you agree to"],
    [rx |-> Rx(<<"hereby">>, TRUE, TRUE), repl |-> "this means"],
    [rx |-> Rx(<<"to the extent permitted by law">>, TRUE, TRUE),
     repl |-> "if the law allows it"],
    [rx |-> Rx(<<"in the event of">>, TRUE, TRUE), repl |-> "if"],
    [rx |-> Rx(<<"may be liable for", "may liable for">>, TRUE, TRUE),
     repl |-> "could be responsible for"],
    [rx |-> Rx(<<"third-party data", "third-party services", "third-party providers",
                 "third-party",
                 "third party data", "third party services", "third party providers",
                 "third party",
                 "thirdparty data", "thirdparty services", "thirdparty providers",
                 "thirdparty">>, TRUE, TRUE),
     repl |-> "other companies"],
    [rx |-> Rx(<<"auto-renewa", "auto-renewal", "auto-renew",
                 "autorenewa", "autorenewal", "autorenew">>, TRUE, TRUE),
     repl |-> "auto-renewal (automatic renewal of service or payment)"],
    [rx |-> Rx(<<"terminateion", "terminateing", "terminate">>, TRUE, TRUE),
     repl |-> "end/stop"] >>

RECURSIVE ApplyRules(_, _, _)
ApplyRules(out, rules, k) ==
    IF k > Len(rules) THEN out
    ELSE ApplyRules(ReplaceAll(out, rules[k].rx, rules[k].repl), rules, k + 1)

\* out.replace(/\s{2,}/g, ' ')
RECURSIVE CollapseSpaces(_, _)
CollapseSpaces(s, from) ==
    LET runs == { i \in from..Len(s) :
                    CharAt(s, i) \in SpaceChars /\ CharAt(s, i + 1) \in SpaceChars }
    IN  IF runs = {} THEN Slice(s, from, Len(s))
        ELSE Slice(s, from, Min(runs) - 1) \o " "
             \o CollapseSpaces(s, RunEnd(s, Min(runs), SpaceChars))

\* a rewriter whose loop runs over the rule list a second time
localRewriteTwice(text) ==
    IF text = "" THEN ""
    ELSE Trim(CollapseSpaces(
             ApplyRules(ApplyRules(text, LEGAL_MAP, 1), LEGAL_MAP, 1), 1))

localRewrite(text) ==
    IF text = "" THEN ""
    ELSE Trim(CollapseSpaces(ApplyRules(text, LEGAL_MAP, 1), 1))

checks == <<
    [key |-> "auto-renew", rx |-> Rx(<<"auto-renew", "autorenew", "renewal">>, TRUE, FALSE),
     level |-> "danger", explain |-> "Automatic renewal or subscription renewal clause"],
    [key |-> "fees", rx |-> Rx(<<"fee", "charge", "cost", "billing">>, TRUE, FALSE),
     level |-> "warning", explain |-> "Mentions fees, charges or billing terms"],
    [key |-> "data-sharing",
     rx |-> Rx(<<"share your data", "third-party", "third party", "thirdparty",
                 "personal data", "process personal data">>, TRUE, FALSE),
     level |-> "warning", explain |-> "Mentions sharing or processing of personal data"],
    [key |-> "waiver",
     rx |-> Rx(<<"waive", "waiver", "limit liability", "limitation of liability">>,
               TRUE, FALSE),
     level |-> "danger", explain |-> "Limits your ability to sue or reduces liability"],
    [key |-> "dispute",
     rx |-> Rx(<<"arbitration", "dispute resolution", "class action waiver">>,
               TRUE, FALSE),
     level |-> "warning", explain |-> "Requires arbitration or limits dispute options"] >>

Clause(c) == [id |-> c.key, level |-> c.level, explain |-> c.explain]

\* for (const c of checks) if (c.rx.test(text)) clauses.push(...)
RECURSIVE CollectClauses(_, _)
CollectClauses(text, k) ==
    IF k > Len(checks) THEN <<>>
    ELSE (IF RxTest(checks[k].rx, text) THEN <<Clause(checks[k])>> ELSE <<>>)
         \o CollectClauses(text, k + 1)

\* an overall severity taken from the first finding
overallOfFirst(clauses) ==
    IF Len(clauses) > 0 THEN clauses[1].level ELSE "safe"

\* lines 344-346
overallOf(clauses) ==
    IF \E k \in 1..Len(clauses) : clauses[k].level = "danger" THEN "danger"
    ELSE IF Len(clauses) > 0 THEN "warning"
    ELSE "safe"

localClassify(text) ==
    IF text = "" THEN [overall |-> "safe", items |-> <<>>]
    ELSE LET clauses == CollectClauses(text, 1)
         IN  [overall |-> overallOf(clauses), items |-> clauses]

\* the phrase pairs of TRANSLATIONS[lang] in insertion order; {} for a
\* language without a map
TRANSLATIONS(lang) ==
    IF lang = "es" THEN <<
        <<"Automatic renewal or subscription renewal clause",
          "Cláusula de renovación automática o suscripción">>,
        <<"Mentions fees, charges or billing terms",
          "Menciona tarifas, cargos o términos de facturación">>,
        <<"Mentions sharing or processing of personal data",
          "Menciona el intercambio o procesamiento de datos personales">>,
        <<"Limits your ability to sue or reduces liability",
          "Limita su capacidad para demandar o reduce la responsabilidad">>,
        <<"Requires arbitration or limits dispute options",
          "Requiere arbitraje o limita las opciones de disputa">> >>
    ELSE <<>>

RECURSIVE ApplyPhrases(_, _, _)
ApplyPhrases(out, pairs, k) ==
    IF k > Len(pairs) THEN out
    ELSE ApplyPhrases(ReplaceAll(out, Rx(<<pairs[k][1]>>, FALSE, FALSE), pairs[k][2]),
                      pairs, k + 1)

TranslationMarker(lang) == "\n\n[Translated to " \o lang \o " (approx)]"

\* a translator that marks every output
WithMarkerAlways(text, out, lang) == out \o TranslationMarker(lang)

\* line 369: out is text after the phrase substitutions
WithMarker(text, out, lang) ==
    out \o (IF out = text THEN TranslationMarker(lang) ELSE "")

\* a translator without the shortcut for the default language
localTranslateNoDefault(text, lang) ==
    IF text = "" THEN ""
    ELSE WithMarker(text, ApplyPhrases(text, TRANSLATIONS(lang), 1), lang)

localTranslate(text, lang) ==
    IF text = "" THEN ""
    ELSE IF lang = "en" THEN text
    ELSE WithMarker(text, ApplyPhrases(text, TRANSLATIONS(lang), 1), lang)


(***************************************************************************)
(* State.                                                                  *)
(*                                                                         *)
(* win: the window globals the scripts read and the repository does not    *)
(*      assign (the embedding page or build supplies them):                *)
(*        config    window.__contractDecoder_config.API_KEY is truthy      *)
(*        client    window.__contractDecoder_googleAI is loaded            *)
(*        API_KEY   the key googleAI.js captured when it was loaded        *)
(*        googleAI  window.googleAI is bound (to the client)               *)
(* run: the locals of the runPipeline invocation in flight, with the       *)
(*      history of the remote operations it invoked                        *)
(* sidebarInjected, dom, panel: the flag, the sidebar elements attached to *)
(*      the document, and the controls of every sidebar element            *)
(***************************************************************************)
VARIABLES win, run, sidebarInjected, dom, panel

pipelineVars == <<win, run, sidebarInjected, dom, panel>>

(***************************************************************************)
(* fn: one application of a local heuristic to an input text, for the      *)
(* properties of the heuristics themselves (specification FnSpec).         *)
(***************************************************************************)
VARIABLES fn

(***************************************************************************)
(* Page extraction (specification ExtractSpec).                            *)
(*   location       location.href                                          *)
(*   lastProcessed  the URL of the last extraction started, null if none   *)
(*   targets        the handleIfTarget invocations, by slot                *)
(*   timers         the setTimeout callbacks of locationchange not yet run *)
(*   booted         the content script has made its initial call           *)
(*   deduped        history: some call returned at the dedupe test while   *)
(*                  the extraction started for its URL was still suspended *)
(***************************************************************************)
VARIABLES location, lastProcessed, targets, timers, booted, deduped

extractVars == <<location, lastProcessed, targets, timers, booted, deduped>>

(***************************************************************************)
(* invocations: the runPipeline invocations on one sidebar, in the order   *)
(* they were invoked, each with its locals (specification RaceSpec).       *)
(***************************************************************************)
VARIABLES invocations

raceVars == <<invocations>>

(***************************************************************************)
(* background.js (specification MenuSpec).                                 *)
(*   clicks         the context-menu clicks, in order, each with the       *)
(*                  position of its handler and what it has done           *)
(*   lastSelection  the value under lastSelection in chrome.storage.local  *)
(***************************************************************************)
VARIABLES clicks, lastSelection

bgVars == <<clicks, lastSelection>>

vars == <<win, run, sidebarInjected, dom, panel, fn,
          location, lastProcessed, targets, timers, booted, deduped,
          invocations, clicks, lastSelection>>

undefined == "<undefined>"
null == 0
\* let lastProcessed = null
noUrl == "<null>"

MaxElems == 2
ElemIds == 1..MaxElems

Langs == {"en", "es", "fr"}

PipelineTexts == {
    "",
    "Fees apply. You hereby agree to auto-renewal.",
    "A fee. We may share your data! You waive it? Ok.",
    "Mentions fees, charges or billing terms" }

Selections == {"", "Selected fee."}

\* what the remote service answers when it answers
Replies == {"", "Remote reply."}

RemoteOps == {"summarize", "generate", "translateSummary", "translatePlain"}

Throw == [ok |-> FALSE, text |-> undefined]
Return(t) == [ok |-> TRUE, text |-> t]

(***************************************************************************)
(* modelApi/googleAI.js.  fetchFails: fetch or response.json() rejects;    *)
(* body: the text _extractTextFromResponse finds in the response.          *)
(***************************************************************************)
generateText(API_KEY, fetchFails, body) ==
    IF ~API_KEY THEN Throw
    ELSE IF fetchFails THEN Throw
    ELSE Return(body)

summarizeText(API_KEY, fetchFails, body) == generateText(API_KEY, fetchFails, body)

translateText(API_KEY, fetchFails, body) == generateText(API_KEY, fetchFails, body)

ExplainPrompt(text) == "Please explain the following text in simple terms:\n\n" \o text

(***************************************************************************)
(* content.js: the sidebar.                                                *)
(***************************************************************************)
BlankPanel == [input |-> "", language |-> "en", summary |-> "", plain |-> "",
               risks |-> <<>>, confidence |-> ""]

\* document.getElementById('contract-decoder-sidebar')
getElementById(d) == IF d = {} THEN null ELSE Min(d)

\* an element no one holds any more: not attached, not the sb of a run in flight
FreeElems(d, r) ==
    { e \in ElemIds : e \notin d /\ ~(r.pc \in {"awaitSummarize", "awaitGenerate",
                                               "awaitTranslateSummary",
                                               "awaitTranslatePlain"} /\ r.sb = e) }

\* createSidebar(): the element it returns; the document and the flag it
\* leaves are in domAfterCreate and in the actions that call it
createSidebar(injected, d, r) ==
    IF injected THEN getElementById(d) ELSE Min(FreeElems(d, r))

CanCreateSidebar(injected, d, r) == injected \/ FreeElems(d, r) # {}


(***************************************************************************)
(* The texts a run can hand to the heuristics, and the heuristics          *)
(* tabulated on them once; off the table the heuristic itself is applied.  *)
(***************************************************************************)
RunTexts == PipelineTexts \cup Selections

SummarizeTable == [t \in RunTexts |-> localSummarize(t, DefaultMaxSentences)]
RewriteTable == [t \in RunTexts |-> localRewrite(t)]
ClassifyTable == [t \in RunTexts |-> localClassify(t)]

Translatables ==
    { SummarizeTable[t] : t \in RunTexts } \cup { RewriteTable[t] : t \in RunTexts }
    \cup Replies \cup { checks[k].explain : k \in 1..Len(checks) }

TranslateTable == [x \in Translatables, l \in Langs |-> localTranslate(x, l)]

Summarize(t) ==
    IF t \in RunTexts THEN SummarizeTable[t] ELSE localSummarize(t, DefaultMaxSentences)
Rewrite(t) == IF t \in RunTexts THEN RewriteTable[t] ELSE localRewrite(t)
Classify(t) == IF t \in RunTexts THEN ClassifyTable[t] ELSE localClassify(t)
Translate(x, l) ==
    IF x \in Translatables /\ l \in Langs THEN TranslateTable[x, l]
    ELSE localTranslate(x, l)

(***************************************************************************)
(* content.js: runPipeline.  Each operator below is one stretch of the     *)
(* function between two suspension points; r is the record of its locals.  *)
(*   calls       the remote operations invoked, in order                   *)
(*   reply       what each remote request returned                         *)
(*   failed      the remote requests that were rejected                    *)
(*   classified  the arguments localClassify was called with               *)
(*   route2, route3   the branch of if (hasAPI) each step took             *)
(*   caught2, caught3 the catch block of the step ran                      *)
(***************************************************************************)
NoRun == [pc |-> "idle", argText |-> "", text |-> "", lang |-> "en", sb |-> null,
          hasAPI |-> FALSE, summary |-> undefined, plain |-> undefined,
          translatedSummary |-> undefined, translatedPlain |-> undefined,
          classification |-> [overall |-> undefined, items |-> <<>>],
          calls |-> <<>>,
          reply |-> [o \in RemoteOps |-> undefined],
          failed |-> {},
          classified |-> <<>>,
          route2 |-> "none", route3 |-> "none",
          caught2 |-> FALSE, caught3 |-> FALSE]

InFlight(r) == r.pc \in {"awaitSummarize", "awaitGenerate",
                         "awaitTranslateSummary", "awaitTranslatePlain"}

\* x || ''
OrEmpty(x) == IF x = undefined THEN "" ELSE x

\* the placeholder the sidebar shows for an empty text (U+2014 in the source,
\* which the string syntax here does not admit)
emDash == "--"

\* x || emDash
OrDash(x) == IF x = "" \/ x = undefined THEN emDash ELSE x

\* line 381
hasAPIOf(w) == w.config /\ w.client

\* a classifier fed with the text that is displayed
classifyInputDisplayed(r) == r.translatedSummary

\* line 423: the text handed to localClassify
classifyInput(r) == r.text

\* lines 421-433 without the DOM writes, which Render collects
finish(r) ==
    [r EXCEPT !.classification = Classify(classifyInput(r)),
              !.classified = Append(r.classified, classifyInput(r)),
              !.pc = "done"]

RiskLabels(items, lang) ==
    [k \in 1..Len(items) |->
        [level |-> items[k].level, label |-> Translate(items[k].explain, lang)]]

confidenceOf(overall) ==
    IF overall = "danger" THEN "High risk detected"
    ELSE IF overall = "warning" THEN "Some issues"
    ELSE "Looks safe"

\* the sidebar controls after lines 421-433
Render(p, r) ==
    [p EXCEPT !.summary = OrDash(r.translatedSummary),
              !.plain = OrDash(r.translatedPlain),
              !.risks = RiskLabels(r.classification.items, r.lang),
              !.confidence = confidenceOf(r.classification.overall)]

\* lines 409-410 and 413-414
localTranslatePair(r) ==
    [r EXCEPT !.translatedSummary = Translate(r.summary, r.lang),
              !.translatedPlain = Translate(r.plain, r.lang)]

\* a catch block that recomputes only the output whose request failed
onTranslateErrorKeepsFirst(r) ==
    finish([r EXCEPT !.caught3 = TRUE,
                     !.translatedPlain = Translate(r.plain, r.lang)])

\* lines 407-411: the catch block of the translate step
onTranslateError(r) == finish(localTranslatePair([r EXCEPT !.caught3 = TRUE]))

\* a fallback that is pipeline-wide: one remote failure disables the remote
\* path for the rest of the run
remoteForTranslateUnlessFailed(r) == r.hasAPI /\ ~r.caught2

\* line 403
remoteForTranslate(r) == r.hasAPI

\* lines 404-406 without the try: the TypeError leaves runPipeline
translateCallUnguarded(r, w) ==
    IF w.googleAI
    THEN [r EXCEPT !.route3 = "remote",
                   !.pc = "awaitTranslateSummary",
                   !.calls = Append(r.calls,
                       [op |-> "translateText", arg |-> r.summary, lang |-> r.lang])]
    ELSE [r EXCEPT !.route3 = "remote", !.pc = "raised"]

\* lines 404-406 up to the first suspension
translateCall(r, w) ==
    IF w.googleAI
    THEN [r EXCEPT !.route3 = "remote",
                   !.pc = "awaitTranslateSummary",
                   !.calls = Append(r.calls,
                       [op |-> "translateText", arg |-> r.summary, lang |-> r.lang])]
    \* window.googleAI is undefined: TypeError inside the try
    ELSE onTranslateError([r EXCEPT !.route3 = "remote"])

\* lines 399-419 up to the first suspension
translateStep(r, w) ==
    LET r0 == [r EXCEPT !.translatedSummary = "", !.translatedPlain = ""]
    IN  IF r0.lang # "en"
        THEN IF remoteForTranslate(r0)
             THEN translateCall(r0, w)
             ELSE finish(localTranslatePair([r0 EXCEPT !.route3 = "local"]))
        ELSE finish([r0 EXCEPT !.translatedSummary = r0.summary,
                               !.translatedPlain = r0.plain])

\* lines 391-392 and 395-396
localPair(r) ==
    [r EXCEPT !.summary = Summarize(r.text),
              !.plain = Rewrite(r.text)]

\* a catch block that recomputes only the explanation
onSummarizeErrorKeepsSummary(r, w) ==
    translateStep([r EXCEPT !.caught2 = TRUE, !.plain = Rewrite(r.text)], w)

\* lines 389-393: the catch block of the summarize+explain step
onSummarizeError(r, w) == translateStep(localPair([r EXCEPT !.caught2 = TRUE]), w)

\* lines 382-397 up to the first suspension
summarizeStep(r, w) ==
    LET r0 == [r EXCEPT !.summary = "", !.plain = ""]
    IN  IF r0.hasAPI
        THEN IF w.googleAI
             THEN [r0 EXCEPT !.route2 = "remote",
                             !.pc = "awaitSummarize",
                             !.calls = Append(r0.calls,
                                 [op |-> "summarizeText", arg |-> r0.text,
                                  lang |-> "en"])]
             ELSE onSummarizeError([r0 EXCEPT !.route2 = "remote"], w)
        ELSE translateStep(localPair([r0 EXCEPT !.route2 = "local"]), w)

\* lines 372-381: the call runPipeline(t, l) with the selection sel on the
\* page and sb the value createSidebar returned
runPipeline(t, l, sel, sb, w) ==
    IF sb = null
    THEN [NoRun EXCEPT !.pc = "raised", !.argText = t, !.lang = l]
    ELSE summarizeStep([NoRun EXCEPT !.argText = t,
                                     !.text = IF t = "" THEN sel ELSE t,
                                     !.lang = l,
                                     !.sb = sb,
                                     !.hasAPI = hasAPIOf(w)], w)

\* line 387 resumed: the summarize request settled with res
afterSummarize(r, res, w) ==
    IF ~res.ok THEN onSummarizeError([r EXCEPT !.failed = r.failed \cup {"summarize"}], w)
    ELSE [r EXCEPT !.summary = OrEmpty(res.text),
                   !.reply["summarize"] = res.text,
                   !.pc = "awaitGenerate",
                   !.calls = Append(r.calls,
                       [op |-> "generateText", arg |-> ExplainPrompt(r.text),
                        lang |-> "en"])]

\* line 388 resumed
afterGenerate(r, res, w) ==
    IF ~res.ok THEN onSummarizeError([r EXCEPT !.failed = r.failed \cup {"generate"}], w)
    ELSE translateStep([r EXCEPT !.plain = OrEmpty(res.text),
                                 !.reply["generate"] = res.text], w)

\* line 405 resumed
afterTranslateSummary(r, res) ==
    IF ~res.ok THEN onTranslateError([r EXCEPT !.failed = r.failed \cup {"translateSummary"}])
    ELSE [r EXCEPT !.translatedSummary = res.text,
                   !.reply["translateSummary"] = res.text,
                   !.pc = "awaitTranslatePlain",
                   !.calls = Append(r.calls,
                       [op |-> "translateText", arg |-> r.plain, lang |-> r.lang])]

\* line 406 resumed
afterTranslatePlain(r, res) ==
    IF ~res.ok THEN onTranslateError([r EXCEPT !.failed = r.failed \cup {"translatePlain"}])
    ELSE finish([r EXCEPT !.translatedPlain = res.text,
                          !.reply["translatePlain"] = res.text])


(***************************************************************************)
(* The pipeline as a state machine: one runPipeline invocation in flight   *)
(* (its locals are private to the invocation; what other invocations and   *)
(* handlers share with it, the flag and the document, changes under it     *)
(* through CreateSidebar and CloseClick while it is suspended).            *)
(***************************************************************************)
WinStates ==
    { w \in [config : BOOLEAN, client : BOOLEAN, API_KEY : BOOLEAN, googleAI : BOOLEAN] :
        /\ w.API_KEY => (w.client /\ w.config)
        /\ w.googleAI => w.client }

NoFn == [op |-> "none", text |-> "", max |-> 0, lang |-> "en",
         outText |-> "", outAgain |-> "", outList |-> <<>>,
         outClass |-> [overall |-> undefined, items |-> <<>>]]

PipelineInit ==
    /\ win \in WinStates
    /\ run = NoRun
    /\ sidebarInjected = FALSE
    /\ dom = {}
    /\ panel = [e \in ElemIds |-> BlankPanel]

NoExtract == [sourceSelector |-> undefined, text |-> undefined,
              summary |-> undefined, explanation |-> undefined,
              originalText |-> undefined]

NoTarget == [pc |-> "free", url |-> "", sentUrl |-> noUrl, path |-> "", sel |-> 0,
             text |-> undefined,
             summary |-> undefined, extracted |-> NoExtract, delivered |-> FALSE]

MaxCalls == 2
CallIds == 1..MaxCalls

ExtractIdle ==
    /\ location = "https://site.example/"
    /\ lastProcessed = noUrl
    /\ targets = [c \in CallIds |-> NoTarget]
    /\ timers = 0
    /\ booted = FALSE
    /\ deduped = FALSE

RaceIdle == invocations = <<>>

BgIdle == clicks = <<>> /\ lastSelection = undefined

Init == PipelineInit /\ fn = NoFn /\ ExtractIdle /\ RaceIdle /\ BgIdle

\* lines 258-259 of createSidebar, when it creates the element sb
domAfterCreate(sb) == IF sidebarInjected \/ sb = null THEN dom ELSE dom \cup {sb}

panelAfterCreate(p, sb) ==
    IF sidebarInjected \/ sb = null THEN p ELSE [p EXCEPT ![sb] = BlankPanel]

\* line 378: the first stretch of runPipeline writes the text to the input box
WriteInput(p, r) ==
    IF r.sb = null THEN p ELSE [p EXCEPT ![r.sb].input = r.text]

\* lines 421-433: the stretch of runPipeline that ends it writes the results
\* to its sidebar element
Paint(p, r) ==
    IF r.sb # null /\ r.pc = "done" THEN [p EXCEPT ![r.sb] = Render(p[r.sb], r)]
    ELSE p

\* an element that is detached and that no suspended run holds is garbage:
\* nothing can read or show its controls again
Collect(p, d, r) ==
    [e \in ElemIds |-> IF e \in FreeElems(d, r) THEN BlankPanel ELSE p[e]]

\* an invocation runPipeline(t, l) from a handler, p0 the controls as the
\* handler left them
Invoke(t, l, p0) ==
    /\ ~InFlight(run)
    /\ CanCreateSidebar(sidebarInjected, dom, run)
    /\ \E sel \in Selections :
         LET sb == createSidebar(sidebarInjected, dom, run)
             r  == runPipeline(t, l, sel, sb, win)
         IN  /\ run' = r
             /\ sidebarInjected' = (sidebarInjected \/ sb # null)
             /\ dom' = domAfterCreate(sb)
             /\ panel' = Collect(Paint(WriteInput(panelAfterCreate(p0, sb), r), r),
                                 domAfterCreate(sb), r)
    /\ UNCHANGED <<win, fn, extractVars, raceVars, bgVars>>

\* lines 263-266; typed is what the input box holds at the click (the text
\* the last run wrote there, or what the user typed over it)
AnalyzeClick ==
    \E e \in dom, typed \in PipelineTexts :
        Invoke(typed, panel[e].language, [panel EXCEPT ![e].input = typed])

\* lines 276-280
LanguageChange ==
    \E e \in dom, l \in {"en", "es"}, typed \in PipelineTexts :
        /\ l # panel[e].language
        /\ Invoke(typed, l, [panel EXCEPT ![e].language = l, ![e].input = typed])

\* lines 440-445: createSidebar() and runPipeline(msg.text, 'en')
OnAnalyzeSelection ==
    \E t \in PipelineTexts \ {""} : Invoke(t, "en", panel)

\* lines 446-452
OnExtractedContent ==
    \E t \in PipelineTexts : Invoke(t, "en", panel)

\* runPipeline called with any text and any language code
CallRunPipeline ==
    \E t \in PipelineTexts, l \in Langs : Invoke(t, l, panel)

\* createSidebar() called on its own while a run is suspended
CreateSidebar ==
    /\ InFlight(run)
    /\ CanCreateSidebar(sidebarInjected, dom, run)
    /\ LET sb == createSidebar(sidebarInjected, dom, run)
       IN  /\ sidebarInjected' = (sidebarInjected \/ sb # null)
           /\ dom' = domAfterCreate(sb)
           /\ panel' = panelAfterCreate(panel, sb)
    /\ UNCHANGED <<win, run, fn, extractVars, raceVars, bgVars>>

\* a close handler that removes the element and leaves the flag set
CloseClickKeepsFlag ==
    /\ \E e \in dom :
         /\ dom' = dom \ {e}
         /\ panel' = Collect(panel, dom \ {e}, run)
    /\ UNCHANGED <<win, run, fn, extractVars, raceVars, bgVars, sidebarInjected>>

\* line 262
CloseClick ==
    /\ \E e \in dom :
         /\ dom' = dom \ {e}
         /\ panel' = Collect(panel, dom \ {e}, run)
    /\ sidebarInjected' = FALSE
    /\ UNCHANGED <<win, run, fn, extractVars, raceVars, bgVars>>

Settle(r) ==
    /\ run' = r
    /\ panel' = Collect(Paint(panel, r), dom, r)
    /\ UNCHANGED <<win, sidebarInjected, dom, fn, extractVars, raceVars, bgVars>>

SummarizeSettles ==
    /\ run.pc = "awaitSummarize"
    /\ \E fetchFails \in BOOLEAN, body \in Replies :
         Settle(afterSummarize(run,
                    summarizeText(win.API_KEY, fetchFails, body), win))

GenerateSettles ==
    /\ run.pc = "awaitGenerate"
    /\ \E fetchFails \in BOOLEAN, body \in Replies :
         Settle(afterGenerate(run,
                    generateText(win.API_KEY, fetchFails, body), win))

TranslateSummarySettles ==
    /\ run.pc = "awaitTranslateSummary"
    /\ \E fetchFails \in BOOLEAN, body \in Replies :
         Settle(afterTranslateSummary(run,
                    translateText(win.API_KEY, fetchFails, body)))

TranslatePlainSettles ==
    /\ run.pc = "awaitTranslatePlain"
    /\ \E fetchFails \in BOOLEAN, body \in Replies :
         Settle(afterTranslatePlain(run,
                    translateText(win.API_KEY, fetchFails, body)))

Next ==
    \/ AnalyzeClick
    \/ LanguageChange
    \/ OnAnalyzeSelection
    \/ OnExtractedContent
    \/ CallRunPipeline
    \/ CreateSidebar
    \/ CloseClick
    \/ SummarizeSettles
    \/ GenerateSettles
    \/ TranslateSummarySettles
    \/ TranslatePlainSettles

Spec == Init /\ [][Next]_vars


(***************************************************************************)
(* Properties of runPipeline (specification Spec).                         *)
(***************************************************************************)
Step2Done(r) == r.pc \in {"awaitTranslateSummary", "awaitTranslatePlain", "done"}

\* both requests of the summarize+explain step returned
RemotePairSucceeded(r) ==
    r.reply["summarize"] # undefined /\ r.reply["generate"] # undefined

\* both requests of the translate step returned
RemoteTranslationsSucceeded(r) ==
    r.reply["translateSummary"] # undefined /\ r.reply["translatePlain"] # undefined

Invoked(r, op) == \E k \in 1..Len(r.calls) : r.calls[k].op = op

\* C1: whenever the summarize+explain step did not fully succeed remotely
\* (no remote capability, the summarize request failed, or the generate
\* request failed after summarize returned), the summary and the explanation
\* are both the local ones, localSummarize(text) and localRewrite(text).
C1_LocalPairOnFailure ==
    (Step2Done(run) /\ ~RemotePairSucceeded(run))
        => /\ run.summary = Summarize(run.text)
           /\ run.plain = Rewrite(run.text)

\* the generate request failed after summarize had returned a text, and the
\* summary is the local one, not the returned one
C1_Witness ==
    /\ run.pc = "done"
    /\ run.reply["summarize"] = "Remote reply."
    /\ "generate" \in run.failed
    /\ run.text = "A fee. We may share your data! You waive it? Ok."
    /\ run.summary = Summarize(run.text)
    /\ run.plain = Rewrite(run.text)

\* C2: with the API key present and the remote client loaded, and no remote
\* summarize or generate request failing, the run invokes both remote
\* operations and its summary and explanation are the texts they returned.
C2_RemoteUsedWhenAvailable ==
    (/\ run.pc = "done"
     /\ win.config /\ win.client /\ win.API_KEY
     /\ run.failed \cap {"summarize", "generate"} = {})
        => /\ Invoked(run, "summarizeText")
           /\ Invoked(run, "generateText")
           /\ RemotePairSucceeded(run)
           /\ run.summary = run.reply["summarize"]
           /\ run.plain = run.reply["generate"]

\* C3: a run never raises, and a finished run has every result defined: the
\* summary, the explanation, both displayed texts, the classification
\* (overall severity and findings) and the language; a sidebar that is still
\* attached shows them.
C3_RunCompletesDefined ==
    /\ run.pc # "raised"
    /\ run.pc = "done" =>
         /\ run.sb # null
         /\ run.summary # undefined /\ run.plain # undefined
         /\ run.translatedSummary # undefined /\ run.translatedPlain # undefined
         /\ run.classification.overall \in {"safe", "warning", "danger"}
         /\ run.classification = Classify(run.text)
         /\ run.lang \in Langs
         /\ run.sb \in dom =>
              /\ panel[run.sb].summary \notin {"", undefined}
              /\ panel[run.sb].plain \notin {"", undefined}
              /\ panel[run.sb].confidence = confidenceOf(run.classification.overall)
              /\ Len(panel[run.sb].risks) = Len(run.classification.items)

\* the empty text, an unknown language, a failure in each step
C3_Witness ==
    /\ run.pc = "done"
    /\ run.text = "" /\ run.lang = "fr"
    /\ "generate" \in run.failed /\ "translateSummary" \in run.failed
    /\ run.sb \in dom
    /\ panel[run.sb].summary = emDash
    /\ run.classification = [overall |-> "safe", items |-> <<>>]

\* C5: with a target language other than 'en', when the translate step did
\* not fully succeed remotely (no remote capability, or either translate
\* request failed), both displayed texts are the local phrase translations
\* of the step-2 summary and explanation.
C5_LocalTranslationsOnFailure ==
    (run.pc = "done" /\ run.lang # "en" /\ ~RemoteTranslationsSucceeded(run))
        => /\ run.translatedSummary = Translate(run.summary, run.lang)
           /\ run.translatedPlain = Translate(run.plain, run.lang)

\* the second translate request failed after the first had returned a text
C5_Witness ==
    /\ run.pc = "done" /\ run.lang = "es"
    /\ run.reply["translateSummary"] = "Remote reply."
    /\ "translatePlain" \in run.failed
    /\ run.summary = "Mentions fees, charges or billing terms"
    /\ run.translatedSummary = "Menciona tarifas, cargos o términos de facturación"
    /\ run.translatedPlain = Translate(run.plain, "es")

\* C6: with the target language 'en' no translate operation is invoked, the
\* displayed summary and explanation are the step-2 ones, every risk label
\* is the finding's explanation, and localTranslate(x, 'en') is x.
C6_EnglishUntranslated ==
    /\ (Step2Done(run) /\ run.lang = "en") =>
         /\ ~Invoked(run, "translateText")
         /\ run.pc = "done"
         /\ run.translatedSummary = run.summary
         /\ run.translatedPlain = run.plain
         /\ run.sb \in dom =>
              \A k \in 1..Len(run.classification.items) :
                  panel[run.sb].risks[k].label = run.classification.items[k].explain
    /\ \A x \in Translatables : Translate(x, "en") = x

\* an English run with remote summary that shows risk findings
C6_Witness ==
    /\ run.pc = "done" /\ run.lang = "en"
    /\ RemotePairSucceeded(run)
    /\ run.translatedSummary = "Remote reply."
    /\ run.sb \in dom
    /\ Len(panel[run.sb].risks) = 3
    /\ panel[run.sb].risks[1].label = "Mentions fees, charges or billing terms"

\* C7: a run classifies exactly once, when it finishes; the classifier's
\* argument is the run's input text and its result is localClassify of that
\* text; the remote operations a run invokes are summarize, generate and
\* translate only.
C7_ClassifyOnceOnInput ==
    /\ run.pc # "done" => run.classified = <<>>
    /\ run.pc = "done" =>
         /\ run.classified = <<run.text>>
         /\ run.classification = Classify(run.text)
         /\ run.argText # "" => run.text = run.argText
    /\ \A k \in 1..Len(run.calls) :
         /\ run.calls[k].op \in {"summarizeText", "generateText", "translateText"}
         /\ run.calls[k].op = "summarizeText" => k = 1
         /\ run.calls[k].op = "generateText" => k = 2
         /\ run.calls[k].op = "translateText" =>
              run.calls[k].arg \in {run.summary, run.plain}

\* a fully remote Spanish run whose displayed summary differs from the input
C7_Witness ==
    /\ run.pc = "done" /\ run.lang = "es"
    /\ RemotePairSucceeded(run) /\ RemoteTranslationsSucceeded(run)
    /\ run.text = "Fees apply. You hereby agree to auto-renewal."
    /\ run.translatedSummary = "Remote reply."
    /\ run.classified = <<run.text>>
    /\ run.classification.overall = "danger"

\* C8: with the remote capability available and a target language other
\* than 'en', a run whose summarize+explain step fell back to local output
\* still takes the remote branch of the translate step; its displayed texts
\* are the translate replies unless the translate step's own catch block
\* ran; and the step-2 summary and explanation a translate failure leaves
\* are those step 2 produced.
C8_PerStepFallback ==
    /\ (Step2Done(run) /\ run.hasAPI /\ run.lang # "en" /\ run.caught2) =>
         /\ run.route3 = "remote"
         /\ win.googleAI =>
              \E k \in 1..Len(run.calls) :
                  /\ run.calls[k].op = "translateText"
                  /\ run.calls[k].arg = Summarize(run.text)
    /\ (run.pc = "done" /\ run.hasAPI /\ run.lang # "en" /\ ~run.caught3) =>
         /\ run.translatedSummary = run.reply["translateSummary"]
         /\ run.translatedPlain = run.reply["translatePlain"]
    /\ (run.pc = "done" /\ run.caught3) =>
         IF RemotePairSucceeded(run)
         THEN /\ run.summary = run.reply["summarize"]
              /\ run.plain = run.reply["generate"]
         ELSE /\ run.summary = Summarize(run.text)
              /\ run.plain = Rewrite(run.text)

\* step 2 fell back, the translate step went remote and succeeded
C8_Witness ==
    /\ run.pc = "done" /\ run.lang = "es"
    /\ run.caught2 /\ "summarize" \in run.failed
    /\ ~run.caught3
    /\ run.text = "Fees apply. You hereby agree to auto-renewal."
    /\ run.summary = Summarize(run.text)
    /\ run.translatedSummary = "Remote reply."
    /\ run.translatedPlain = ""


\* C13: after any sequence of createSidebar calls and close clicks the
\* document holds at most one sidebar element, sidebarInjected is true
\* exactly when one is present, and a call of createSidebar returns the
\* element that is present once the call has ended.
C13_OneSidebar ==
    /\ Cardinality(dom) <= 1
    /\ sidebarInjected <=> dom # {}
    /\ CanCreateSidebar(sidebarInjected, dom, run) =>
          LET sb == createSidebar(sidebarInjected, dom, run)
          IN  sb # null /\ domAfterCreate(sb) = {sb}

\* the sidebar was closed under a suspended run and created again: the run
\* still holds the removed element, the document holds the new one only
C13_Witness ==
    /\ InFlight(run)
    /\ run.sb = 1
    /\ sidebarInjected
    /\ dom = {2}


(***************************************************************************)
(* Several runPipeline invocations on one sidebar (specification RaceSpec): *)
(* a handler may invoke runPipeline while earlier invocations are          *)
(* suspended at a remote request, and the requests settle in any order.    *)
(***************************************************************************)
MaxRuns == 2

RaceTexts == { "Fees apply. You hereby agree to auto-renewal.",
               "A fee. We may share your data! You waive it? Ok." }

\* the invocation r resumed by the settling of the request it awaits
resume(r, fetchFails, body, w) ==
    CASE r.pc = "awaitSummarize" ->
            afterSummarize(r, summarizeText(w.API_KEY, fetchFails, body), w)
      [] r.pc = "awaitGenerate" ->
            afterGenerate(r, generateText(w.API_KEY, fetchFails, body), w)
      [] r.pc = "awaitTranslateSummary" ->
            afterTranslateSummary(r, translateText(w.API_KEY, fetchFails, body))
      [] r.pc = "awaitTranslatePlain" ->
            afterTranslatePlain(r, translateText(w.API_KEY, fetchFails, body))

\* an invocation runPipeline(t, l) from a handler, whatever the earlier
\* invocations are doing
RaceInvoke(t, l, sel, p0) ==
    /\ Len(invocations) < MaxRuns
    /\ LET sb == createSidebar(sidebarInjected, dom, NoRun)
           r  == runPipeline(t, l, sel, sb, win)
       IN  /\ invocations' = Append(invocations, r)
           /\ sidebarInjected' = (sidebarInjected \/ sb # null)
           /\ dom' = domAfterCreate(sb)
           /\ panel' = Paint(WriteInput(panelAfterCreate(p0, sb), r), r)
    /\ UNCHANGED <<win, run, fn, extractVars, bgVars>>

\* lines 263-266
RaceAnalyzeClick ==
    \E e \in dom, typed \in RaceTexts :
        RaceInvoke(typed, panel[e].language, "", [panel EXCEPT ![e].input = typed])

\* lines 276-280
RaceLanguageChange ==
    \E e \in dom, l \in {"en", "es"}, typed \in RaceTexts :
        /\ l # panel[e].language
        /\ RaceInvoke(typed, l, "", [panel EXCEPT ![e].language = l, ![e].input = typed])

\* lines 440-445
RaceOnAnalyzeSelection ==
    \E t \in RaceTexts : RaceInvoke(t, "en", "", panel)

\* lines 446-452
RaceOnExtractedContent ==
    \E t \in RaceTexts \cup {""}, sel \in Selections : RaceInvoke(t, "en", sel, panel)

\* a remote request of one of the suspended invocations settles
RaceSettle ==
    /\ \E k \in 1..Len(invocations), fetchFails \in BOOLEAN, body \in Replies :
         /\ InFlight(invocations[k])
         /\ LET r == resume(invocations[k], fetchFails, body, win)
            IN  /\ invocations' = [invocations EXCEPT ![k] = r]
                /\ panel' = Paint(panel, r)
    /\ UNCHANGED <<win, run, sidebarInjected, dom, fn, extractVars, bgVars>>

RaceNext ==
    \/ RaceAnalyzeClick
    \/ RaceLanguageChange
    \/ RaceOnAnalyzeSelection
    \/ RaceOnExtractedContent
    \/ RaceSettle

RaceSpec == Init /\ [][RaceNext]_vars

MaxPieces == 4

Pieces == { "Auto-renew it. ", "A fee!\n\n", "We waive? ", "Ok ok. ", "no end " }

RECURSIVE Concats(_)
Concats(n) ==
    IF n = 0 THEN {""}
    ELSE LET shorter == Concats(n - 1)
         IN  shorter \cup { p \o t : p \in Pieces, t \in shorter }

\* texts that hold phrases of TRANSLATIONS and of LEGAL_MAP, some of them twice
PhraseTexts ==
    { "Mentions fees, charges or billing terms",
      "Mentions fees, charges or billing terms. Mentions fees, charges or billing terms",
      "Ok ok. Requires arbitration or limits dispute options; Mentions fees, charges or billing terms",
      "We hereby  terminate   the auto-renewal. " }

FnTexts == Concats(MaxPieces) \cup PhraseTexts

FnInit ==
    /\ win = [config |-> FALSE, client |-> FALSE, API_KEY |-> FALSE, googleAI |-> FALSE]
    /\ run = NoRun
    /\ sidebarInjected = FALSE
    /\ dom = {}
    /\ panel = [e \in ElemIds |-> BlankPanel]
    /\ \E t \in FnTexts : fn = [NoFn EXCEPT !.text = t]
    /\ ExtractIdle
    /\ RaceIdle
    /\ BgIdle

Apply(result) ==
    /\ fn.op = "none"
    /\ fn' = result
    /\ UNCHANGED pipelineVars
    /\ UNCHANGED extractVars
    /\ UNCHANGED <<raceVars, bgVars>>

ApplySplitSentences ==
    Apply([fn EXCEPT !.op = "splitSentences", !.outList = splitSentences(fn.text)])

ApplyLocalSummarize ==
    \E m \in 1..DefaultMaxSentences :
        Apply([fn EXCEPT !.op = "localSummarize", !.max = m,
                         !.outText = localSummarize(fn.text, m)])

\* localRewrite(text), and localRewrite applied to what it returned
ApplyLocalRewrite ==
    Apply([fn EXCEPT !.op = "localRewrite",
                     !.outText = localRewrite(fn.text),
                     !.outAgain = localRewrite(localRewrite(fn.text))])

ApplyLocalClassify ==
    Apply([fn EXCEPT !.op = "localClassify", !.outClass = localClassify(fn.text)])

ApplyLocalTranslate ==
    \E l \in Langs :
        Apply([fn EXCEPT !.op = "localTranslate", !.lang = l,
                         !.outText = localTranslate(fn.text, l)])

FnNext ==
    \/ ApplySplitSentences
    \/ ApplyLocalSummarize
    \/ ApplyLocalRewrite
    \/ ApplyLocalClassify
    \/ ApplyLocalTranslate

FnSpec == FnInit /\ [][FnNext]_vars

(***************************************************************************)
(* Properties of the heuristics (specification FnSpec).                    *)
(***************************************************************************)
\* the categories in the order of the specification, with their severities
CategoryOrder == <<"auto-renew", "fees", "data-sharing", "waiver", "dispute">>

CategorySeverity ==
    [c \in {"auto-renew", "waiver"} |-> "danger"] @@
    [c \in {"fees", "data-sharing", "dispute"} |-> "warning"]

CategoryIndex(c) == CHOOSE k \in 1..Len(CategoryOrder) : CategoryOrder[k] = c

\* C9: localClassify returns at most one finding per category, in the fixed
\* category order, each with the category's fixed severity; overall is
\* danger iff some finding is danger, warning iff there are findings and
\* none is danger, safe iff there are none; the empty text gives safe with
\* no findings.
C9_ClassifyShape ==
    fn.op = "localClassify" =>
        LET items == fn.outClass.items
            overall == fn.outClass.overall
            anyDanger == \E k \in 1..Len(items) : items[k].level = "danger"
        IN  /\ \A k \in 1..Len(items) :
                 /\ \E c \in 1..Len(CategoryOrder) : CategoryOrder[c] = items[k].id
                 /\ items[k].level = CategorySeverity[items[k].id]
            /\ \A j, k \in 1..Len(items) :
                 j < k => CategoryIndex(items[j].id) < CategoryIndex(items[k].id)
            /\ overall \in {"safe", "warning", "danger"}
            /\ overall = "danger" <=> anyDanger
            /\ overall = "warning" <=> (Len(items) > 0 /\ ~anyDanger)
            /\ overall = "safe" <=> Len(items) = 0
            /\ fn.text = "" => (overall = "safe" /\ items = <<>>)

\* a text in which the fee pattern matches twice and a danger finding
\* follows a warning finding
C9_Witness ==
    /\ fn.op = "localClassify"
    /\ fn.text = "A fee!\n\nA fee!\n\nWe waive? "
    /\ Len(fn.outClass.items) = 2
    /\ fn.outClass.items[1].id = "fees" /\ fn.outClass.items[2].id = "waiver"
    /\ fn.outClass.overall = "danger"

\* the pieces of s between the occurrences of the blank-line separator
RECURSIVE SplitOnBlankLine(_, _)
SplitOnBlankLine(s, from) ==
    LET seps == { i \in from..(Len(s) - 1) : SubSeq(s, i, i + 1) = "\n\n" }
    IN  IF seps = {} THEN << Slice(s, from, Len(s)) >>
        ELSE << Slice(s, from, Min(seps) - 1) >> \o SplitOnBlankLine(s, Min(seps) + 2)

\* rank of sentence i of list: the number of sentences ahead of it, those
\* longer and those equally long that occur earlier
RankOf(list, i) ==
    Cardinality({ j \in 1..Len(list) :
                    \/ Len(list[j]) > Len(list[i])
                    \/ Len(list[j]) = Len(list[i]) /\ j < i })

\* C10: for a text with more than maxSentences sentences, localSummarize
\* returns exactly maxSentences sentences of the text's sentence list,
\* joined by a blank line; the k-th is the sentence of rank k-1 by
\* descending length, the earlier of two equally long sentences first.
C10_SummaryIsTopRanked ==
    (fn.op = "localSummarize" /\ Len(splitSentences(fn.text)) > fn.max) =>
        LET list == splitSentences(fn.text)
            picked == SplitOnBlankLine(fn.outText, 1)
        IN  /\ Len(picked) = fn.max
            /\ \A k \in 1..Len(picked) :
                 \E i \in 1..Len(list) :
                     /\ RankOf(list, i) = k - 1
                     /\ picked[k] = list[i]

\* four sentences, the two longest not first in the text, and a tie between
\* "A fee!" and "Ok ok." that the earlier one wins
C10_Witness ==
    /\ fn.op = "localSummarize" /\ fn.max = DefaultMaxSentences
    /\ fn.text = "Ok ok. A fee!\n\nWe waive? Auto-renew it. "
    /\ fn.outText = "Auto-renew it.\n\nWe waive?\n\nOk ok."

\* the positions of s where p occurs
Occurrences(s, p) ==
    { i \in 1..(Len(s) - Len(p) + 1) : SubSeq(s, i, i + Len(p) - 1) = p }

EndsWith(s, p) == Len(s) >= Len(p) /\ SubSeq(s, Len(s) - Len(p) + 1, Len(s)) = p

\* the phrases of the map of lang that occur in text
KnownPhrasesIn(text, lang) ==
    { k \in 1..Len(TRANSLATIONS(lang)) : Occurrences(text, TRANSLATIONS(lang)[k][1]) # {} }

\* C11 as stated: for every text, the empty text included, and every target
\* language other than 'en', localTranslate appends the marker if and only
\* if no known phrase occurs in the text.
C11_MarkerIffNoSubstitution ==
    (fn.op = "localTranslate" /\ fn.lang # "en") =>
        (EndsWith(fn.outText, TranslationMarker(fn.lang))
            <=> KnownPhrasesIn(fn.text, fn.lang) = {})

\* C11 amended: for every non-empty text and every target language other
\* than 'en', localTranslate returns the text followed by the marker when no
\* known phrase occurs in it; when some known phrase occurs, every
\* occurrence of every known phrase is replaced by its translation and no
\* marker is appended.  For the empty text it returns the empty text,
\* without a marker.
C11_MarkerIffNoSubstitutionNonEmpty ==
    (fn.op = "localTranslate" /\ fn.lang # "en") =>
        LET pairs == TRANSLATIONS(fn.lang)
            marker == TranslationMarker(fn.lang)
        IN  IF fn.text = "" THEN fn.outText = ""
            ELSE IF KnownPhrasesIn(fn.text, fn.lang) = {}
            THEN fn.outText = fn.text \o marker
            ELSE /\ ~EndsWith(fn.outText, marker)
                 /\ \A k \in 1..Len(pairs) :
                      /\ Occurrences(fn.outText, pairs[k][1]) = {}
                      /\ Cardinality(Occurrences(fn.outText, pairs[k][2]))
                           = Cardinality(Occurrences(fn.text, pairs[k][1]))
                 /\ Len(fn.outText) > 0

\* a text that holds one known phrase twice, both replaced, and no marker
C11_Witness ==
    /\ fn.op = "localTranslate" /\ fn.lang = "es"
    /\ fn.text = "Mentions fees, charges or billing terms. Mentions fees, charges or billing terms"
    /\ Cardinality(Occurrences(fn.outText, TRANSLATIONS("es")[2][2])) = 2
    /\ ~EndsWith(fn.outText, TranslationMarker("es"))

\* what rule 7 of LEGAL_MAP adds to the phrase it rewrites
RenewalGloss == "(automatic renewal of service or payment)"

\* the matches of /\bauto-?renew(a|al)?\b/ig in s
RenewalMatches(s) ==
    { i \in 1..Len(s) : MatchLen(s, toLowerCase(s), i, LEGAL_MAP[7].rx) > 0 }

\* C12: one application of localRewrite rewrites each auto-renewal phrase of
\* the text exactly once (one gloss per phrase); applied to its own output
\* it rewrites the phrase again (two glosses per phrase), so the second
\* application changes the text whenever the text holds such a phrase, and
\* leaves it unchanged when no rule matches the first output.
C12_RewriteOncePerApplication ==
    fn.op = "localRewrite" =>
        LET n == Cardinality(RenewalMatches(fn.text))
        IN  /\ Cardinality(Occurrences(fn.outText, RenewalGloss)) = n
            /\ Cardinality(Occurrences(fn.outAgain, RenewalGloss)) = 2 * n
            /\ n > 0 => fn.outAgain # fn.outText
            /\ (\A k \in 1..Len(LEGAL_MAP) : ~RxTest(LEGAL_MAP[k].rx, fn.outText))
                   => fn.outAgain = fn.outText

\* a text on which localRewrite(localRewrite(x)) differs from localRewrite(x)
C12_Witness ==
    /\ fn.op = "localRewrite"
    /\ fn.text = "Auto-renew it. "
    /\ fn.outText = "auto-renewal (automatic renewal of service or payment) it."
    /\ fn.outAgain = "auto-renewal (automatic renewal of service or payment) "
                      \o "(automatic renewal of service or payment) it."


(***************************************************************************)
(* content.js: page extraction.                                            *)
(***************************************************************************)
\* the pathname of new URL(href); undefined when the constructor throws
pathnameOf(href) ==
    LET schemes == { i \in 1..(Len(href) - 2) : SubSeq(href, i, i + 2) = "://" }
    IN  IF schemes = {} THEN undefined
        ELSE LET host    == Min(schemes) + 3
                 slashes == { j \in host..Len(href) : CharAt(href, j) = "/" }
             IN  IF slashes = {} THEN "/"
                 ELSE LET ends == { j \in Min(slashes)..Len(href) :
                                      CharAt(href, j) \in {"?", "#"} }
                      IN  Slice(href, Min(slashes),
                                IF ends = {} THEN Len(href) ELSE Min(ends) - 1)

\* /^\/legal(?:-and-conditions)?(?:\/|$)/i
PATH_PATTERNS == << <<"/legal-and-conditions", "/legal">> >>

PathRxTest(prefixes, path) ==
    LET f == toLowerCase(path)
    IN  \E k \in 1..Len(prefixes) :
            /\ Len(f) >= Len(prefixes[k])
            /\ SubSeq(f, 1, Len(prefixes[k])) = prefixes[k]
            /\ (Len(f) = Len(prefixes[k]) \/ CharAt(f, Len(prefixes[k]) + 1) = "/")

pathMatches(href) ==
    LET path == pathnameOf(href)
    IN  IF path = undefined THEN FALSE
        ELSE \E k \in 1..Len(PATH_PATTERNS) : PathRxTest(PATH_PATTERNS[k], path)

SELECTOR_CANDIDATES ==
    << "main", "[data-testid=\"terms\"]", ".terms, .terms-and-conditions, #terms",
       "article", ".content", "body" >>

Urls == { "https://site.example/legal",
          "https://site.example/Legal-and-Conditions/eu?v=2#top",
          "https://site.example/legalese",
          "https://site.example/" }

\* what extractParagraphsFromNode finds in a node
NodeTexts == { "Fees apply. You hereby agree to auto-renewal." }

MaxTimers == 2

FreeSlots == { c \in CallIds : targets[c].pc = "free" }

\* the extraction started for url has not returned yet
Suspended(url) ==
    \E c \in CallIds :
        /\ targets[c].url = url
        /\ targets[c].pc \in {"delay", "waitForSelector", "awaitSummarize", "awaitGenerate"}

\* a handler that records the URL only once its delay has elapsed
handleIfTargetMarksLate(url) ==
    IF ~pathMatches(url) THEN UNCHANGED <<lastProcessed, targets, deduped>>
    ELSE IF lastProcessed = url
    THEN UNCHANGED <<lastProcessed, targets>> /\ deduped' = (deduped \/ Suspended(url))
    ELSE /\ FreeSlots # {}
         /\ lastProcessed' = lastProcessed
         /\ targets' = [targets EXCEPT ![Min(FreeSlots)] =
                           [NoTarget EXCEPT !.pc = "delay", !.url = url]]
         /\ UNCHANGED deduped

\* lines 139-145: handleIfTarget(url) up to its first suspension
handleIfTarget(url) ==
    IF ~pathMatches(url) THEN UNCHANGED <<lastProcessed, targets, deduped>>
    ELSE IF lastProcessed = url
    THEN UNCHANGED <<lastProcessed, targets>> /\ deduped' = (deduped \/ Suspended(url))
    ELSE /\ FreeSlots # {}
         /\ lastProcessed' = url
         /\ targets' = [targets EXCEPT ![Min(FreeSlots)] =
                           [NoTarget EXCEPT !.pc = "delay", !.url = url]]
         /\ UNCHANGED deduped

\* line 159
InitialLoad ==
    /\ ~booted
    /\ booted' = TRUE
    /\ handleIfTarget(location)
    /\ UNCHANGED <<location, timers, pipelineVars, fn, raceVars, bgVars>>

\* lines 162-178: pushState, replaceState or popstate moves the page to u
\* and the locationchange listener arms its timer
Navigate ==
    /\ booted
    /\ timers < MaxTimers
    /\ \E u \in Urls : location' = u
    /\ timers' = timers + 1
    /\ UNCHANGED <<lastProcessed, targets, booted, deduped, pipelineVars, fn, raceVars, bgVars>>

\* line 177: the timer callback
TimerFires ==
    /\ timers > 0
    /\ timers' = timers - 1
    /\ handleIfTarget(location)
    /\ UNCHANGED <<location, booted, pipelineVars, fn, raceVars, bgVars>>

SetTarget(c, t) ==
    /\ targets' = [targets EXCEPT ![c] = t]
    /\ UNCHANGED <<location, lastProcessed, timers, booted, deduped, pipelineVars, fn,
                   raceVars, bgVars>>

\* line 145 resumed, findAndExtract entered: line 105 for the first selector
DelayElapses ==
    \E c \in CallIds :
        /\ targets[c].pc = "delay"
        /\ SetTarget(c, [targets[c] EXCEPT !.pc = "waitForSelector", !.sel = 1])

\* a payload that reads location.href when it is built
sendExtractedCurrentLocation(t, extracted, delivered) ==
    [t EXCEPT !.pc = "sent",
              !.sentUrl = location,
              !.path = pathnameOf(location),
              !.extracted = extracted,
              !.delivered = delivered]

\* lines 128-135 and 148-155: the payload is built from the url of the call
\* and sendExtracted runs; sendMessage may throw, which is swallowed
sendExtracted(t, extracted, delivered) ==
    [t EXCEPT !.pc = "sent",
              !.sentUrl = t.url,
              !.path = pathnameOf(t.url),
              !.extracted = extracted,
              !.delivered = delivered]

\* lines 82-89: processText(text) up to its first suspension; without the
\* client the rejected promise is caught and thrown again (lines 96-99)
processText(t, text, w) ==
    IF w.client THEN [t EXCEPT !.pc = "awaitSummarize", !.text = text]
    ELSE [t EXCEPT !.pc = "rejected", !.text = text]

\* lines 104-108: waitForSelector resolved to a node
SelectorFound ==
    \E c \in CallIds, text \in NodeTexts :
        /\ targets[c].pc = "waitForSelector"
        /\ SetTarget(c, processText(targets[c], text, win))

\* lines 104-124: waitForSelector timed out with null; after the last
\* candidate the fallbacks answer without any remote call
SelectorTimesOut ==
    \E c \in CallIds, largest \in BOOLEAN, text \in NodeTexts \cup {""},
       delivered \in BOOLEAN :
        /\ targets[c].pc = "waitForSelector"
        /\ IF targets[c].sel < Len(SELECTOR_CANDIDATES)
           THEN SetTarget(c, [targets[c] EXCEPT !.sel = targets[c].sel + 1])
           ELSE SetTarget(c, sendExtracted(targets[c],
                    [NoExtract EXCEPT
                        !.sourceSelector =
                            IF largest THEN "largest-block" ELSE "body-fallback",
                        !.text = text],
                    delivered))

\* line 85 resumed
ExtractSummarizeSettles ==
    \E c \in CallIds, fetchFails \in BOOLEAN, body \in Replies :
        /\ targets[c].pc = "awaitSummarize"
        /\ LET res == summarizeText(win.API_KEY, fetchFails, body)
           IN  SetTarget(c, IF res.ok
                            THEN [targets[c] EXCEPT !.pc = "awaitGenerate",
                                                    !.summary = res.text]
                            ELSE [targets[c] EXCEPT !.pc = "rejected"])

\* line 89 resumed, then lines 91-95, 109-113 and 148-155
ExtractGenerateSettles ==
    \E c \in CallIds, fetchFails \in BOOLEAN, body \in Replies, delivered \in BOOLEAN :
        /\ targets[c].pc = "awaitGenerate"
        /\ LET res == generateText(win.API_KEY, fetchFails, body)
               t   == targets[c]
           IN  SetTarget(c, IF res.ok
                            THEN sendExtracted(t,
                                    [NoExtract EXCEPT
                                        !.sourceSelector = SELECTOR_CANDIDATES[t.sel],
                                        !.summary = t.summary,
                                        !.explanation = res.text,
                                        !.originalText = t.text],
                                    delivered)
                            ELSE [t EXCEPT !.pc = "rejected"])

ExtractInit ==
    /\ win \in { w \in WinStates : w.config = w.client /\ ~w.googleAI }
    /\ run = NoRun
    /\ sidebarInjected = FALSE
    /\ dom = {}
    /\ panel = [e \in ElemIds |-> BlankPanel]
    /\ fn = NoFn
    /\ location \in Urls
    /\ lastProcessed = noUrl
    /\ targets = [c \in CallIds |-> NoTarget]
    /\ timers = 0
    /\ booted = FALSE
    /\ deduped = FALSE
    /\ RaceIdle
    /\ BgIdle

ExtractNext ==
    \/ InitialLoad
    \/ Navigate
    \/ TimerFires
    \/ DelayElapses
    \/ SelectorFound
    \/ SelectorTimesOut
    \/ ExtractSummarizeSettles
    \/ ExtractGenerateSettles

ExtractSpec == ExtractInit /\ [][ExtractNext]_vars

(***************************************************************************)
(* Properties of page extraction (specification ExtractSpec).              *)
(***************************************************************************)
\* C4: a remote failure or an unloaded remote client never propagates out
\* of processText: findAndExtract and handleIfTarget are never rejected, and
\* an extraction that found a node goes on to send a payload.
C4_ExtractionSurvivesRemoteFailure ==
    \A c \in CallIds : targets[c].pc # "rejected"

\* the step is a call of handleIfTarget(location.href): the initial one or
\* the callback of a locationchange timer
CallStep == booted' # booted \/ timers' < timers

\* the step starts the extraction of slot c
Started(c) == targets[c].pc = "free" /\ targets'[c].pc # "free"

\* C15, the steps: an extraction is started only by a call whose URL matches
\* a path pattern and is not the URL processed last, one extraction per
\* call, and lastProcessed is that URL from the same step on; a call whose
\* URL does not match, or is the URL processed last, starts nothing and
\* leaves lastProcessed alone (so a run of consecutive calls with one URL
\* starts at most one extraction, also while the first is suspended)
C15_Step ==
    /\ \A c \in CallIds :
         Started(c) =>
            /\ CallStep
            /\ targets'[c].url = location
            /\ pathMatches(location)
            /\ lastProcessed # location
            /\ lastProcessed' = location
            /\ \A d \in CallIds \ {c} : ~Started(d)
    /\ (CallStep /\ (lastProcessed = location \/ ~pathMatches(location))) =>
         /\ \A c \in CallIds : ~Started(c)
         /\ lastProcessed' = lastProcessed
    /\ lastProcessed' # lastProcessed => \E c \in CallIds : Started(c)

\* C15, the payloads: each payload sent carries the URL of the call that
\* started its extraction, a URL that matches a path pattern
C15_Payload ==
    \A c \in CallIds :
        /\ targets[c].pc # "free" => pathMatches(targets[c].url)
        /\ targets[c].pc = "sent" =>
              /\ targets[c].sentUrl = targets[c].url
              /\ targets[c].path = pathnameOf(targets[c].url)

\* C15: for any interleaving of navigation events, handleIfTarget starts an
\* extraction only for URLs whose path matches a pattern, at most one for
\* each run of consecutive calls with the same URL, and each payload sent
\* carries the URL of the call that started it.
C15_OneExtractionPerUrlRun == []C15_Payload /\ [][C15_Step]_vars

\* a repeated call was dropped while the extraction of its URL was still
\* suspended, and a call with another matching URL started a second one;
\* the first payload was sent after the page had moved on
C15_Witness ==
    /\ deduped
    /\ targets[1].pc = "sent" /\ targets[2].pc # "free"
    /\ targets[1].url # targets[2].url
    /\ targets[1].sentUrl = targets[1].url
    /\ location # targets[1].url


(***************************************************************************)
(* background.js: the context-menu handler (specification MenuSpec).       *)
(* A click is a record:                                                    *)
(*   item, text, tab   info.menuItemId, info.selectionText and the tab     *)
(*   pc                "storing"  chrome.storage.local.set was called      *)
(*                     "stored"   the value is written, callback pending   *)
(*                     "sending"  tabs.sendMessage was called              *)
(*                     "done"     the handler and its callbacks are over   *)
(*   stored            the selection of this click has been written        *)
(*   sends, delivered  calls of tabs.sendMessage, and messages handed to   *)
(*                     the onMessage listener of a content script          *)
(*   popups            calls of tabs.create for popup.html                 *)
(*   threw, lastError  sendMessage threw; its callback saw runtime.lastError *)
(***************************************************************************)
MaxClicks == 2

MenuItems == { "decode-selection", "other-item" }

\* the menu item is offered for a selection only: the text is not empty
SelectionTexts == { "Selected fee.", "You waive it." }

\* no tab, a tab without an id, a tab whose content script listens, a tab
\* without content script
Tabs == { "none", "noId", "script", "bare" }

NewClick(item, text, tab) ==
    [item |-> item, text |-> text, tab |-> tab, pc |-> "done", stored |-> FALSE,
     sends |-> 0, delivered |-> 0, popups |-> 0, threw |-> FALSE, lastError |-> FALSE]

\* lines 21, 26, 29
openPopup(c) == [c EXCEPT !.popups = c.popups + 1]

\* lines 11-14: the listener up to the call of chrome.storage.local.set
onClicked(c) ==
    IF c.item = "decode-selection" THEN [c EXCEPT !.pc = "storing"] ELSE c

\* lines 15-30: the callback of set; throws: tabs.sendMessage throws
storageCallback(c, throws) ==
    IF c.tab \in {"script", "bare"}
    THEN IF throws THEN [openPopup(c) EXCEPT !.threw = TRUE, !.pc = "done"]
         ELSE [c EXCEPT !.sends = c.sends + 1, !.pc = "sending"]
    ELSE [openPopup(c) EXCEPT !.pc = "done"]

\* content.js lines 437-445: the listener answers an analyzeSelection
\* message that has a text
listenerResponds(msg) == msg.action = "analyzeSelection" /\ msg.text # ""

\* a response callback that does not look at runtime.lastError
onSendResponseIgnoresError(c, received) ==
    LET answered == received /\ listenerResponds([action |-> "analyzeSelection",
                                                  text |-> c.text])
    IN  [c EXCEPT !.delivered = c.delivered + (IF received THEN 1 ELSE 0),
                  !.lastError = ~answered,
                  !.pc = "done"]

\* lines 18-23: the callback of sendMessage; received: a content script of
\* the tab got the message
onSendResponse(c, received) ==
    LET answered == received /\ listenerResponds([action |-> "analyzeSelection",
                                                  text |-> c.text])
        c1 == [c EXCEPT !.delivered = c.delivered + (IF received THEN 1 ELSE 0),
                        !.lastError = ~answered,
                        !.pc = "done"]
    IN  IF answered THEN c1 ELSE openPopup(c1)

MenuStep(k, c) ==
    /\ clicks' = [clicks EXCEPT ![k] = c]
    /\ UNCHANGED <<lastSelection, pipelineVars, fn, extractVars, raceVars>>

\* line 11: a click on an item of the context menu
ContextMenuClick ==
    /\ Len(clicks) < MaxClicks
    /\ \E item \in MenuItems, text \in SelectionTexts, tab \in Tabs :
         clicks' = Append(clicks, onClicked(NewClick(item, text, tab)))
    /\ UNCHANGED <<lastSelection, pipelineVars, fn, extractVars, raceVars>>

\* line 14: the storage area writes the value; the calls of set are served
\* in the order they were made
StorageWrites ==
    \E k \in 1..Len(clicks) :
        /\ clicks[k].pc = "storing"
        /\ \A j \in 1..(k - 1) : clicks[j].pc # "storing"
        /\ lastSelection' = clicks[k].text
        /\ clicks' = [clicks EXCEPT ![k].pc = "stored", ![k].stored = TRUE]
        /\ UNCHANGED <<pipelineVars, fn, extractVars, raceVars>>

\* lines 14-31: the callback of set runs
StorageCallback ==
    \E k \in 1..Len(clicks), throws \in BOOLEAN :
        /\ clicks[k].pc = "stored"
        /\ MenuStep(k, storageCallback(clicks[k], throws))

\* lines 18-23: the callback of sendMessage runs
SendResponse ==
    \E k \in 1..Len(clicks) :
        /\ clicks[k].pc = "sending"
        /\ MenuStep(k, onSendResponse(clicks[k], clicks[k].tab = "script"))

MenuNext ==
    \/ ContextMenuClick
    \/ StorageWrites
    \/ StorageCallback
    \/ SendResponse

MenuSpec == Init /\ [][MenuNext]_vars

\* the decode-selection clicks whose selection has been written
Written == { k \in 1..Len(clicks) : clicks[k].stored }

\* C16: a click on decode-selection dispatches nothing before its selection
\* is stored; once its handler is over, either the message was delivered
\* and no popup page opened, or the popup page was opened exactly once, the
\* latter exactly when there is no tab id, sendMessage threw or the send
\* reported an error; a click on another item stores nothing, sends
\* nothing and opens nothing.
C16_StoreThenOneOutcome ==
    /\ \A k \in 1..Len(clicks) :
         LET c == clicks[k]
         IN  IF c.item = "decode-selection"
             THEN /\ (c.sends > 0 \/ c.popups > 0) => c.stored
                  /\ c.sends <= 1 /\ c.popups <= 1 /\ c.delivered <= c.sends
                  /\ c.pc = "done" =>
                        /\ (c.delivered = 1 /\ c.popups = 0) \/ c.popups = 1
                        /\ c.popups = 1 <=>
                              (c.tab \in {"none", "noId"} \/ c.threw \/ c.lastError)
                        /\ c.popups = 0 => (c.sends = 1 /\ c.delivered = 1)
             ELSE c = NewClick(c.item, c.text, c.tab)
    /\ IF Written = {} THEN lastSelection = undefined
       ELSE \E k \in Written : lastSelection = clicks[k].text

\* two clicks whose handlers are over: one delivered its message and opened
\* nothing, the other found no content script and opened the popup page
C16_Witness ==
    /\ Len(clicks) = 2
    /\ clicks[1].item = "decode-selection" /\ clicks[1].pc = "done"
    /\ clicks[1].delivered = 1 /\ clicks[1].popups = 0
    /\ clicks[2].item = "decode-selection" /\ clicks[2].pc = "done"
    /\ clicks[2].lastError /\ clicks[2].popups = 1
    /\ lastSelection = clicks[2].text /\ clicks[1].text # clicks[2].text

====
